---------------------------- MODULE Spec2Model ----------------------------
(***************************************************************************)
(* Model of the Torch remote exporter (src/main.go): main's start-up       *)
(* checks, the metricsLoop goroutine that runs the five collector          *)
(* functions of `metrics` once at start and then on every ticker tick,     *)
(* the gauges they write and the playersOnline session map.                *)
(*                                                                         *)
(* A fetch (makeRequest) is two steps: the request goes out and the        *)
(* goroutine blocks (pc = "fetch" or "wfetch"; `inflight` holds how the    *)
(* call will end), and the return, which is the step of the collector      *)
(* function that issued it and draws the decoded body.  Pointers are       *)
(* sequences of length at most one: << >> is nil, <<r>> points to the      *)
(* struct r.                                                               *)
(* Time is counted in ticks, TicksPerSecond to the second.                 *)
(***************************************************************************)
EXTENDS Integers, Sequences, FiniteSets, TLC

\* ------------------------------------------------------------- bounds
\* clock resolution of the model
TicksPerSecond == 2
\* longest list of grid ids / banned ids the remote returns
MaxIds == 1
\* longest list of world ids the remote returns
MaxWorlds == 2
\* longest player list the remote returns
MaxPlayers == 2
\* clock horizon in ticks: the model's ticker stops firing once the time
\* doGetPlayersOnline captured has reached it
MaxNow == 3

\* ---------------------------------------------------------- constants
\* timerInterval's default, time.Minute, in seconds
Minute == 60

\* StatusEnum
STOPPED == 0
STARTING == 1
RUNNING == 2
CRASHED == 3

\* mutant: two entries of the list in the wrong order
metricsSwapped ==
    << "doServerStatus", "doGetBannedCount", "doGetGridCount",
       "doGetWorlds", "doGetPlayersOnline" >>

\* the order of the collector functions in `metrics`
metrics ==
    << "doServerStatus", "doGetGridCount", "doGetBannedCount",
       "doGetWorlds", "doGetPlayersOnline" >>

VARIABLES
    env,                  \* which inputs this run draws from (fixed by Init)
    config,               \* TORCH_HOST, TORCH_PORT, TORCH_PASS, INTERVAL
    timerInterval,        \* seconds
    pc,                   \* where the process / the metricsLoop goroutine is
    task,                 \* index into metrics of the function running, 0: none
    ticker,               \* "none", "armed" (channel empty), "ticked" (a tick buffered)
    inflight,             \* how the request in flight will end: "none" when there is none
    gauges,               \* the six scalar gauges
    metricWorldSize,      \* GaugeVec: world name -> value
    metricPlayersOnline,  \* GaugeVec: <<name, steamID>> -> value
    playersOnline,        \* map clientID -> join time (ticks)
    now,                  \* the last value of time.Now() doGetPlayersOnline captured
    poll,                 \* doGetPlayersOnline between Reset and return: its locals, else << >>
    scraped,              \* what the last GET /metrics was answered with, << >> before the first
    worldIds,             \* doGetWorlds: local worldIds
    idx,                  \* doGetWorlds: position of the range loop in worldIds
    \* ---- history variables (not program state)
    failed,               \* some function returned an error in the current cycle
    ran,                  \* functions called in the current cycle, in call order
    written,              \* world names doGetWorlds wrote in the current cycle
    good,                 \* per function: its gauges at the end of its last successful run
    lastSeen,             \* the entries of the player list of the last completed successful poll
    runStart,             \* clientID -> capture time of the first poll of its current run
    gone,                 \* clientIDs whose session record was deleted at some time
    renamed,              \* clientIDs the last successful poll listed under other names than the one before
    last                  \* the last fetch that returned: its path, how it ended, the body received

vars ==
    << env, config, timerInterval, pc, task, ticker, inflight, gauges,
       metricWorldSize, metricPlayersOnline, playersOnline, now, worldIds,
       idx, failed, ran, written, good, lastSeen, runStart, gone, poll,
       scraped, renamed, last >>

\* ------------------------------------------------------------ helpers
\* all sequences over S of length at most n
RECURSIVE SeqsUpTo(_, _)
SeqsUpTo(S, n) ==
    IF n = 0 THEN { << >> }
    ELSE LET shorter == SeqsUpTo(S, n - 1)
         IN  shorter \cup { Append(s, x) : s \in { t \in shorter : Len(t) = n - 1 }, x \in S }

\* the empty GaugeVec / empty map
Empty == << >>

\* f with key k set to v (a map or GaugeVec write)
Put(f, k, v) == [ x \in (DOMAIN f) \cup {k} |-> IF x = k THEN v ELSE f[x] ]

\* f without the keys in K
Without(f, K) == [ x \in (DOMAIN f) \ K |-> f[x] ]


\* ------------------------------------------------- the remote's answers
\* decoded serverStatus bodies; uptime is the decoded Duration (1:01:01, 0:00:05)
Status1 == [ simSpeed |-> 1, memberCount |-> 2, uptime |-> [ h |-> 1, s |-> 61 ], status |-> RUNNING ]
Status2 == [ simSpeed |-> 0, memberCount |-> 0, uptime |-> [ h |-> 0, s |-> 5 ], status |-> CRASHED ]

WorldNames == { "Alpha", "Beta" }
WorldSizes == { 50, 100 }
Worlds == [ name : WorldNames, sizeKb : WorldSizes ]

ClientIDs == { 1, 2 }
PlayerNames == { "A", "B" }
PlayerEntries == [ clientID : ClientIDs, name : PlayerNames, promoteLevel : {0} ]

\* --------------------------------------------------- JSON on the wire
\* A response body as the decoder sees it: text that is not JSON, or a JSON
\* value.  A string is the sequence of its lexemes: numerals, ":", "h" and
\* "x" (any other character).
NoBody == [ t |-> "none", v |-> 0 ]
Malformed == [ t |-> "malformed", v |-> 0 ]
JNull == [ t |-> "null", v |-> 0 ]
JNumber(n) == [ t |-> "number", v |-> n ]
JString(str) == [ t |-> "string", v |-> str ]
JArray(a) == [ t |-> "array", v |-> a ]
JObject(o) == [ t |-> "object", v |-> o ]

Num(n) == [ c |-> "num", n |-> n ]
Chr(c) == [ c |-> c, n |-> 0 ]

\* the string "H:MM:SS"
HMS(h, m, sec) == JString(<< Num(h), Chr(":"), Num(m), Chr(":"), Num(sec) >>)

\* uptime values of the form H:MM:SS: small ones, the largest an int64 of
\* nanoseconds holds (2562047:47:16), one second more, one hour more
UptimesHMS ==
    { HMS(1, 1, 1), HMS(0, 0, 5), HMS(100, 59, 59), HMS(2562047, 47, 16),
      HMS(2562047, 47, 17), HMS(2562048, 0, 0) }

\* uptime values of any other form: a number, an object, an array, null,
\* "", "1:01", "1:01:01:01", "x:00:00", "1h30:00:00"
UptimesOther ==
    { JNumber(5), JObject([ x |-> JNumber(1) ]), JArray(<< >>), JNull,
      JString(<< >>),
      JString(<< Num(1), Chr(":"), Num(1) >>),
      JString(<< Num(1), Chr(":"), Num(1), Chr(":"), Num(1), Chr(":"), Num(1) >>),
      JString(<< Chr("x"), Chr(":"), Num(0), Chr(":"), Num(0) >>),
      JString(<< Num(1), Chr("h"), Num(30), Chr(":"), Num(0), Chr(":"), Num(0) >>) }

\* the server-status object with uptime u
StatusObject(u) ==
    JObject([ simSpeed |-> JNumber(1), memberCount |-> JNumber(2),
              uptime |-> u, status |-> JNumber(RUNNING) ])

\* bodies GET /api/v1/server/status is answered with: status objects, an
\* error object, an object with a mistyped field, a list, no JSON (the null
\* body is among the decoded bodies of EnvLoop)
WireStatus ==
    { StatusObject(u) : u \in UptimesHMS \cup UptimesOther }
      \cup { JObject([ error |-> JString(<< Chr("x") >>) ]),
             JObject([ simSpeed |-> JString(<< Chr("x") >>), memberCount |-> JNumber(2),
                       uptime |-> HMS(1, 1, 1), status |-> JNumber(RUNNING) ]),
             JArray(<< >>), Malformed }

\* bodies the id-list endpoints are answered with: lists, an object, null,
\* no JSON
WireIds ==
    { JArray(<< >>), JArray(<< JNumber(7) >>), JArray(<< JString(<< Chr("x") >>) >>),
      JObject([ error |-> JString(<< Chr("x") >>) ]), JNull, Malformed }

\* the player object of client id under a one-letter name
PlayerObject(id, name) ==
    JObject([ clientID |-> JNumber(id), name |-> JString(<< Chr(name) >>),
              promoteLevel |-> JNumber(0) ])

\* bodies GET /api/v1/players is answered with: lists of player objects, a
\* list holding null, an object, null, no JSON
WirePlayers ==
    { JArray(<< >>), JArray(<< PlayerObject(1, "A") >>), JArray(<< PlayerObject(1, "B") >>),
      JArray(<< JNull >>), JObject([ error |-> JString(<< Chr("x") >>) ]), JNull, Malformed }

\* a pointer to any element of S, or nil (a JSON null)
PtrTo(S) == { << >> } \cup { <<x>> : x \in S }

TenSeconds == 10 * TicksPerSecond

\* Inputs of the runs that exercise the scheduler, the error paths and the
\* world gauge: every endpoint answers with several bodies; INTERVAL is
\* absent, unparsable or "0s".
EnvLoop ==
    [ status     |-> PtrTo({ Status1, Status2 }),
      ids        |-> SeqsUpTo({ 7 }, MaxIds),
      worldLists |-> SeqsUpTo({ "w1" }, MaxWorlds),
      worlds     |-> PtrTo({ w \in Worlds : w.name = "Alpha" \/ w.sizeKb = 50 }),
      playerLists |-> { << >>, << << >> >> }
                      \cup { << <<p>> >> : p \in { e \in PlayerEntries : e.clientID = 1 /\ e.name = "A" } },
      steps      |-> { 1 },
      intervals  |-> { "", "x", "0s" },
      wireStatus |-> {},
      wireIds    |-> {},
      wirePlayers |-> {} ]

\* the entries of the player list l come in (clientID, name) order
Ordered(l) ==
    \A i \in 1..(Len(l) - 1) :
        \/ l[i][1].clientID < l[i + 1][1].clientID
        \/ l[i][1].clientID = l[i + 1][1].clientID
              /\ (l[i][1].name = l[i + 1][1].name \/ l[i][1].name = "A")

\* Inputs of the runs that exercise the session tracker: player lists with
\* repeated IDs and names, their entries in (clientID, name) order; clock
\* steps of one tick and of ten seconds; INTERVAL is "30s".
EnvPlayers ==
    [ status     |-> PtrTo({ Status1 }),
      ids        |-> { << >> },
      worldLists |-> { << "w1" >> },
      worlds     |-> PtrTo({ [ name |-> "Alpha", sizeKb |-> 100 ] }),
      playerLists |-> { l \in SeqsUpTo({ <<p>> : p \in PlayerEntries }, MaxPlayers) : Ordered(l) },
      steps      |-> { 1, TenSeconds },
      intervals  |-> { "30s" },
      wireStatus |-> {},
      wireIds    |-> {},
      wirePlayers |-> {} ]

\* Inputs of the runs that exercise the decoders: the server-status, the
\* grid-list and the player-list endpoints answer with bodies as they are on
\* the wire.
EnvWire ==
    [ status     |-> {},
      ids        |-> { << >> },
      worldLists |-> { << "w1" >> },
      worlds     |-> { << [ name |-> "Alpha", sizeKb |-> 100 ] >> },
      playerLists |-> {},
      steps      |-> { 1 },
      intervals  |-> { "" },
      wireStatus |-> WireStatus,
      wireIds    |-> WireIds,
      wirePlayers |-> WirePlayers ]

\* Inputs of the runs in which scrapes interleave with the cycle driver and
\* doGetPlayersOnline takes one step per pass of its loop: short player
\* lists, one of them holding a nil entry.
EnvScrape ==
    [ status     |-> PtrTo({ Status1 }),
      ids        |-> { << >> },
      worldLists |-> { << "w1" >> },
      worlds     |-> { << [ name |-> "Alpha", sizeKb |-> 100 ] >> },
      playerLists |-> { << >>, << << >> >> }
                      \cup { l \in SeqsUpTo({ <<p>> : p \in { e \in PlayerEntries : e.name = "A" } }, MaxPlayers) :
                                Len(l) > 0 /\ \A i, j \in 1..Len(l) : l[i] = l[j] => i = j },
      steps      |-> { 1 },
      intervals  |-> { "" },
      wireStatus |-> {},
      wireIds    |-> {},
      wirePlayers |-> {} ]

\* the inputs of the run
Inputs ==
    CASE env = "loop"    -> EnvLoop
      [] env = "players" -> EnvPlayers
      [] env = "wire"    -> EnvWire
      [] env = "scrape"  -> EnvScrape

\* ------------------------------------------------------------ Duration
\* A time.Duration is an int64 of nanoseconds.  Every duration of the model
\* is a whole number of seconds, written [h, s] for h * 3600 + s seconds
\* with s < 3600, because 2^63 nanoseconds do not fit the integers of the
\* model checker.
ZeroDuration == [ h |-> 0, s |-> 0 ]

\* 2^63 - 1 nanoseconds in whole seconds: 9223372036 = 2562047 h 47 m 16 s
MaxDuration == [ h |-> 2562047, s |-> 2836 ]

\* d > 2^63 - 1 nanoseconds
Exceeds(d) == d.h > MaxDuration.h \/ (d.h = MaxDuration.h /\ d.s > MaxDuration.s)

\* the index of the first ":" of str, 0 when there is none
FirstColon(str) ==
    IF \E i \in 1..Len(str) : str[i].c = ":"
    THEN CHOOSE i \in 1..Len(str) : str[i].c = ":" /\ \A j \in 1..(i - 1) : str[j].c # ":"
    ELSE 0

\* strings.SplitN(str, ":", n) for n >= 1
RECURSIVE SplitN(_, _)
SplitN(str, n) ==
    IF n = 1 \/ FirstColon(str) = 0 THEN << str >>
    ELSE << SubSeq(str, 1, FirstColon(str) - 1) >>
            \o SplitN(SubSeq(str, FirstColon(str) + 1, Len(str)), n - 1)

\* mutant: minutes and seconds change places
SprintfSwapped(parts) ==
    parts[1] \o << Chr("h") >> \o parts[3] \o << Chr("m") >> \o parts[2] \o << Chr("s") >>

\* fmt.Sprintf("%sh%sm%ss", parts[0], parts[1], parts[2])
Sprintf(parts) ==
    parts[1] \o << Chr("h") >> \o parts[2] \o << Chr("m") >> \o parts[3] \o << Chr("s") >>

\* how many lexemes of str precede its first numeral
UnitRun(str) ==
    IF \E i \in 1..Len(str) : str[i].c = "num"
    THEN (CHOOSE i \in 1..Len(str) : str[i].c = "num" /\ \A j \in 1..(i - 1) : str[j].c # "num") - 1
    ELSE Len(str)

\* v > 1<<63 / unit: 2562047 for hours, 153722867 for minutes; for seconds
\* the limit is above every numeral of the model
UnitOverflows(v, u) ==
    CASE u = "h" -> v > 2562047
      [] u = "m" -> v > 153722867
      [] u = "s" -> FALSE

\* d + v * unit
AddUnits(d, v, u) ==
    CASE u = "h" -> [ h |-> d.h + v, s |-> d.s ]
      [] u = "m" -> LET t == d.s + (v % 60) * 60
                    IN  [ h |-> d.h + (v \div 60) + (t \div 3600), s |-> t % 3600 ]
      [] u = "s" -> LET t == d.s + (v % 3600)
                    IN  [ h |-> d.h + (v \div 3600) + (t \div 3600), s |-> t % 3600 ]

DurationError == [ ok |-> FALSE, d |-> ZeroDuration ]

\* the loop of time.ParseDuration over the rest of the string: a numeral,
\* then a unit that is exactly "h", "m" or "s", with the overflow checks
RECURSIVE ParseUnits(_, _)
ParseUnits(str, d) ==
    IF str = << >> THEN [ ok |-> TRUE, d |-> d ]
    ELSE IF Head(str).c # "num" THEN DurationError
    ELSE LET v    == Head(str).n
             rest == Tail(str)
             k    == UnitRun(rest)
         IN  IF k # 1 \/ rest[1].c \notin { "h", "m", "s" } THEN DurationError
             ELSE IF UnitOverflows(v, rest[1].c) THEN DurationError
             ELSE LET sum == AddUnits(d, v, rest[1].c)
                  IN  IF Exceeds(sum) THEN DurationError
                      ELSE ParseUnits(SubSeq(rest, 2, Len(rest)), sum)

\* time.ParseDuration on a string of lexemes (unsigned, without fractions)
ParseDurationLexemes(str) ==
    IF str = << >> THEN DurationError ELSE ParseUnits(str, ZeroDuration)

\* Duration.UnmarshalJSON on the JSON value j: [ok, d]
UnmarshalJSON(j) ==
    IF j.t # "string" THEN DurationError
    ELSE LET parts == SplitN(j.v, 3)
         IN  IF Len(parts) # 3 THEN DurationError
             ELSE ParseDurationLexemes(Sprintf(parts))

\* Duration.Seconds(): float64 seconds, exact for whole seconds of this
\* size; kept as hours and seconds
Seconds(d) == [ h |-> d.h, s |-> d.s ]

\* ------------------------------------------------------- json Decode
DecodeError == [ kind |-> "decode", val |-> << >> ]

\* a numeric struct field f of the object o: absent or null leaves the
\* zero value, a number is stored, any other JSON type is an error
NumField(o, f) ==
    IF f \notin DOMAIN o \/ o[f].t = "null" THEN [ ok |-> TRUE, v |-> 0 ]
    ELSE IF o[f].t = "number" THEN [ ok |-> TRUE, v |-> o[f].v ]
    ELSE [ ok |-> FALSE, v |-> 0 ]

\* the Uptime field: absent leaves the zero Duration, anything else (null
\* included) is handed to Duration.UnmarshalJSON
UptimeField(o) ==
    IF "uptime" \notin DOMAIN o THEN [ ok |-> TRUE, d |-> ZeroDuration ]
    ELSE UnmarshalJSON(o["uptime"])

\* Decode into *serverStatus: null leaves the pointer nil; an object fills
\* the fields it names and ignores the others; anything else is an error
DecodeStatus(j) ==
    CASE j.t = "null" -> [ kind |-> "ok", val |-> << >> ]
      [] j.t = "object" ->
           LET sim == NumField(j.v, "simSpeed")
               mem == NumField(j.v, "memberCount")
               st  == NumField(j.v, "status")
               up  == UptimeField(j.v)
           IN  IF sim.ok /\ mem.ok /\ st.ok /\ up.ok
               THEN [ kind |-> "ok",
                      val  |-> << [ simSpeed |-> sim.v, memberCount |-> mem.v,
                                    uptime |-> up.d, status |-> st.v ] >> ]
               ELSE DecodeError
      [] OTHER -> DecodeError

\* the Go string of a JSON string of at most one lexeme
Text(str) == IF str = << >> THEN "" ELSE str[1].c

\* a string struct field f of the object o
StrField(o, f) ==
    IF f \notin DOMAIN o \/ o[f].t = "null" THEN [ ok |-> TRUE, v |-> "" ]
    ELSE IF o[f].t = "string" THEN [ ok |-> TRUE, v |-> Text(o[f].v) ]
    ELSE [ ok |-> FALSE, v |-> "" ]

\* one element of []*playerStatus: null is a nil pointer, an object a
\* pointer to the struct, anything else an error
DecodePlayer(j) ==
    CASE j.t = "null" -> [ ok |-> TRUE, v |-> << >> ]
      [] j.t = "object" ->
           LET id == NumField(j.v, "clientID")
               nm == StrField(j.v, "name")
               pl == NumField(j.v, "promoteLevel")
           IN  [ ok |-> id.ok /\ nm.ok /\ pl.ok,
                 v  |-> << [ clientID |-> id.v, name |-> nm.v, promoteLevel |-> pl.v ] >> ]
      [] OTHER -> [ ok |-> FALSE, v |-> << >> ]

\* Decode into []*playerStatus
DecodePlayers(j) ==
    CASE j.t = "null" -> [ kind |-> "ok", val |-> << >> ]
      [] j.t = "array" ->
           IF \A i \in 1..Len(j.v) : DecodePlayer(j.v[i]).ok
           THEN [ kind |-> "ok", val |-> [ i \in 1..Len(j.v) |-> DecodePlayer(j.v[i]).v ] ]
           ELSE DecodeError
      [] OTHER -> DecodeError

\* Decode into []int64: null leaves the slice nil; a list of numbers is
\* stored; anything else is an error
DecodeIds(j) ==
    CASE j.t = "null" -> [ kind |-> "ok", val |-> << >> ]
      [] j.t = "array" ->
           IF \A i \in 1..Len(j.v) : j.v[i].t = "number"
           THEN [ kind |-> "ok", val |-> [ i \in 1..Len(j.v) |-> j.v[i].v ] ]
           ELSE DecodeError
      [] OTHER -> DecodeError

\* --------------------------------------------------------- makeRequest
Paths ==
    { "/api/v1/server/status", "/api/v1/grids", "/api/v1/players/banned",
      "/api/v1/worlds", "/api/v1/worlds/%s", "/api/v1/players" }

\* what a well-formed answer to GET path decodes to
Bodies(path) ==
    CASE path = "/api/v1/server/status"  -> Inputs.status
      [] path = "/api/v1/grids"          -> Inputs.ids
      [] path = "/api/v1/players/banned" -> Inputs.ids
      [] path = "/api/v1/worlds"         -> Inputs.worldLists
      [] path = "/api/v1/worlds/%s"      -> Inputs.worlds
      [] path = "/api/v1/players"        -> Inputs.playerLists

\* the bodies GET path is answered with, as they are on the wire
WireBodies(path) ==
    CASE path = "/api/v1/server/status" -> Inputs.wireStatus
      [] path = "/api/v1/grids"         -> Inputs.wireIds
      [] path = "/api/v1/players"       -> Inputs.wirePlayers
      [] OTHER                          -> {}

\* dec.Decode(&dest) on the body j of the answer to GET path
Decode(path, j) ==
    LET r == IF j.t = "malformed" THEN DecodeError
             ELSE IF path = "/api/v1/server/status" THEN DecodeStatus(j)
             ELSE IF path = "/api/v1/players" THEN DecodePlayers(j)
             ELSE DecodeIds(j)
    IN  [ kind |-> r.kind, val |-> r.val, json |-> j ]

\* makeRequest(path, &dest): the outcomes of one call.  "transport": Do
\* failed; "decode": Decode returned an error; "ok": Decode returned nil and
\* dest holds val.  On an error the caller's dest is not used.  json is the
\* body received when the run draws bodies as they are on the wire.
MakeRequest(path) ==
    { [ kind |-> k, val |-> << >>, json |-> NoBody ] : k \in { "transport", "decode" } }
      \cup { [ kind |-> "ok", val |-> v, json |-> NoBody ] : v \in Bodies(path) }
      \cup { Decode(path, j) : j \in WireBodies(path) }

NoFetch == [ path |-> "", kind |-> "none", json |-> NoBody ]

\* the record of a returned fetch that received the body r.json
Fetched(path, r) ==
    IF r.json = NoBody THEN NoFetch ELSE [ path |-> path, kind |-> r.kind, json |-> r.json ]

\* the outcomes of a call to path that end the way `inflight` says
Outcomes(path) == { r \in MakeRequest(path) : r.kind = inflight }

\* a request to path goes out
Send(path) == inflight' \in { r.kind : r \in MakeRequest(path) }

\* the endpoint each collector function fetches first
FirstPath(f) ==
    CASE f = "doServerStatus"     -> "/api/v1/server/status"
      [] f = "doGetGridCount"     -> "/api/v1/grids"
      [] f = "doGetBannedCount"   -> "/api/v1/players/banned"
      [] f = "doGetWorlds"        -> "/api/v1/worlds"
      [] f = "doGetPlayersOnline" -> "/api/v1/players"

\* time.ParseDuration on the INTERVAL strings of the model: [ok, seconds]
ParseDuration(s) ==
    CASE s = "0s"  -> [ ok |-> TRUE, d |-> 0 ]
      [] s = "30s" -> [ ok |-> TRUE, d |-> 30 ]
      [] OTHER     -> [ ok |-> FALSE, d |-> 0 ]

\* -------------------------------------------------------------- Init
ZeroGauges ==
    [ metricSimSpeed |-> 0, metricPlayerCount |-> 0, metricGameReady |-> 0,
      metricUptime |-> Seconds(ZeroDuration), metricGridCount |-> 0, metricBannedCount |-> 0 ]

\* the gauges function k of metrics is responsible for
TaskGauges(k, g, w, p) ==
    CASE k = 1 -> << g.metricSimSpeed, g.metricPlayerCount, g.metricGameReady, g.metricUptime >>
      [] k = 2 -> << g.metricGridCount >>
      [] k = 3 -> << g.metricBannedCount >>
      [] k = 4 -> << w >>
      [] k = 5 -> << p >>

InitWith(e) ==
    /\ env = e
    /\ config \in [ host : BOOLEAN, port : BOOLEAN, pass : BOOLEAN, interval : Inputs.intervals ]
    /\ timerInterval = Minute
    /\ pc = "main"
    /\ task = 0
    /\ ticker = "none"
    /\ inflight = "none"
    /\ gauges = ZeroGauges
    /\ metricWorldSize = Empty
    /\ metricPlayersOnline = Empty
    /\ playersOnline = Empty
    /\ now = 0
    /\ worldIds = << >>
    /\ idx = 0
    /\ failed = FALSE
    /\ ran = << >>
    /\ written = {}
    /\ good = [ k \in 1..Len(metrics) |-> TaskGauges(k, ZeroGauges, Empty, Empty) ]
    /\ lastSeen = {}
    /\ runStart = Empty
    /\ gone = {}
    /\ poll = << >>
    /\ scraped = << >>
    /\ renamed = {}
    /\ last = NoFetch

Init == InitWith("loop")

InitPlayers == InitWith("players")

InitWire == InitWith("wire")

InitScrape == InitWith("scrape")


\* ------------------------------------------------------- metricsLoop
\* mutant: the loop gives the cycle up at the first error
NextIndexAbort(k, err) == IF err THEN Len(metrics) + 1 ELSE k + 1

\* the index of the function the range loop over metrics runs after
\* function k returned (err: it returned an error, which is logged)
NextIndex(k, err) == k + 1

\* the loop calls metrics[k], which issues its first request and blocks;
\* past the end of metrics the cycle is over (r: functions called so far,
\* w: world names written so far)
Call(k, r, w) ==
    IF k <= Len(metrics)
    THEN /\ task' = k
         /\ pc' = "fetch"
         /\ Send(FirstPath(metrics[k]))
         /\ ran' = Append(r, metrics[k])
         /\ written' = w
    ELSE /\ task' = 0
         /\ pc' = IF ticker = "none" THEN "newticker" ELSE "wait"
         /\ inflight' = "none"
         /\ ran' = r
         /\ written' = {}

\* metrics[task] returned to the loop
Returned(err, w) ==
    /\ failed' = (failed \/ err)
    /\ Call(NextIndex(task, err), ran, w)

\* a nil pointer dereference: the runtime panics and the process dies
Panic ==
    /\ pc' = "panic"
    /\ UNCHANGED << task, inflight, ran, failed, written >>

Fetching(f) == pc = "fetch" /\ task \in 1..Len(metrics) /\ metrics[task] = f

\* good, with the gauges function k leaves behind (g, w, p) recorded
Snapshot(k, g, w, p) == [ good EXCEPT ![k] = TaskGauges(k, g, w, p) ]

\* ------------------------------------------------------------- main
\* mutant: TORCH_PASS is not checked
ConfigMissingNoPass(c) == ~c.host \/ ~c.port

\* TORCH_HOST == "" || TORCH_PORT == "" || TORCH_PASS == ""
ConfigMissing(c) == ~c.host \/ ~c.port \/ ~c.pass

\* main up to `go metricsLoop()`; past it the main goroutine serves /metrics
main ==
    /\ pc = "main"
    /\ IF ConfigMissing(config)
       THEN pc' = "fatal" /\ UNCHANGED timerInterval
       ELSE IF config.interval # ""
            THEN LET r == ParseDuration(config.interval)
                 IN  IF r.ok
                     THEN pc' = "loop" /\ timerInterval' = r.d
                     ELSE pc' = "fatal" /\ UNCHANGED timerInterval
            ELSE pc' = "loop" /\ UNCHANGED timerInterval
    /\ UNCHANGED << env, config, poll, scraped, task, ticker, inflight, gauges,
                    metricWorldSize, metricPlayersOnline, playersOnline, now,
                    worldIds, idx, failed, ran, written,
                    good, lastSeen, runStart, gone, renamed, last >>

\* metricsLoop up to the first call of the start-up cycle
metricsLoop ==
    /\ pc = "loop"
    /\ failed' = FALSE
    /\ Call(1, << >>, {})
    /\ UNCHANGED << env, config, poll, scraped, timerInterval, ticker, gauges, metricWorldSize,
                    metricPlayersOnline, playersOnline, now, worldIds,
                    idx, good, lastSeen, runStart, gone, renamed, last >>

\* time.NewTicker(timerInterval) panics on a non-positive interval
NewTicker ==
    /\ pc = "newticker"
    /\ IF timerInterval <= 0
       THEN pc' = "panic" /\ UNCHANGED ticker
       ELSE pc' = "wait" /\ ticker' = "armed"
    /\ UNCHANGED << env, config, poll, scraped, timerInterval, task, inflight, gauges,
                    metricWorldSize, metricPlayersOnline, playersOnline, now,
                    worldIds, idx, failed, ran, written,
                    good, lastSeen, runStart, gone, renamed, last >>

\* the ticker's period elapses: ticker.C holds one tick, a second is dropped
Tick ==
    /\ ticker # "none"
    /\ pc \notin { "panic", "fatal" }
    /\ now < MaxNow
    /\ ticker' = "ticked"
    /\ UNCHANGED << env, config, poll, scraped, timerInterval, pc, task, inflight, gauges,
                    metricWorldSize, metricPlayersOnline, playersOnline, now,
                    worldIds, idx, failed, ran, written,
                    good, lastSeen, runStart, gone, renamed, last >>

\* for range ticker.C receives a tick and the next cycle's first call is made
StartCycle ==
    /\ pc = "wait"
    /\ ticker = "ticked"
    /\ ticker' = "armed"
    /\ failed' = FALSE
    /\ Call(1, << >>, {})
    /\ UNCHANGED << env, config, poll, scraped, timerInterval, gauges, metricWorldSize,
                    metricPlayersOnline, playersOnline, now, worldIds,
                    idx, good, lastSeen, runStart, gone, renamed, last >>

\* ---------------------------------------------------- doServerStatus
\* the scalar gauges after doServerStatus got outcome r (r.val not nil)
ServerStatusGauges(g, r) ==
    IF r.kind # "ok" THEN g
    ELSE LET status == r.val[1]
         IN  [ g EXCEPT !.metricSimSpeed = status.simSpeed,
                        !.metricPlayerCount = status.memberCount,
                        !.metricGameReady = status.status,
                        !.metricUptime = Seconds(status.uptime) ]

doServerStatus ==
    /\ Fetching("doServerStatus")
    /\ \E r \in Outcomes("/api/v1/server/status") :
          /\ last' = Fetched("/api/v1/server/status", r)
          /\ IF r.kind = "ok" /\ r.val = << >>
             THEN Panic /\ UNCHANGED << gauges, good >>
             ELSE /\ gauges' = ServerStatusGauges(gauges, r)
                  /\ good' = IF r.kind = "ok"
                             THEN Snapshot(1, gauges', metricWorldSize, metricPlayersOnline)
                             ELSE good
                  /\ Returned(r.kind # "ok", written)
    /\ UNCHANGED << env, config, poll, scraped, timerInterval, ticker, metricWorldSize,
                    metricPlayersOnline, playersOnline, now, worldIds,
                    idx, lastSeen, runStart, gone, renamed >>

\* ---------------------------------------------------- doGetGridCount
\* mutant: the early return on an error is missing
GridCountNoCheck(g, r) == [ g EXCEPT !.metricGridCount = Len(r.val) ]

GridCountGauges(g, r) ==
    IF r.kind # "ok" THEN g ELSE [ g EXCEPT !.metricGridCount = Len(r.val) ]

doGetGridCount ==
    /\ Fetching("doGetGridCount")
    /\ \E r \in Outcomes("/api/v1/grids") :
          /\ last' = Fetched("/api/v1/grids", r)
          /\ gauges' = GridCountGauges(gauges, r)
          /\ good' = IF r.kind = "ok"
                     THEN Snapshot(2, gauges', metricWorldSize, metricPlayersOnline)
                     ELSE good
          /\ Returned(r.kind # "ok", written)
    /\ UNCHANGED << env, config, poll, scraped, timerInterval, ticker, metricWorldSize,
                    metricPlayersOnline, playersOnline, now, worldIds,
                    idx, lastSeen, runStart, gone, renamed >>

\* -------------------------------------------------- doGetBannedCount
BannedCountGauges(g, r) ==
    IF r.kind # "ok" THEN g ELSE [ g EXCEPT !.metricBannedCount = Len(r.val) ]

doGetBannedCount ==
    /\ Fetching("doGetBannedCount")
    /\ \E r \in Outcomes("/api/v1/players/banned") :
          /\ last' = Fetched("/api/v1/players/banned", r)
          /\ gauges' = BannedCountGauges(gauges, r)
          /\ good' = IF r.kind = "ok"
                     THEN Snapshot(3, gauges', metricWorldSize, metricPlayersOnline)
                     ELSE good
          /\ Returned(r.kind # "ok", written)
    /\ UNCHANGED << env, config, poll, scraped, timerInterval, ticker, metricWorldSize,
                    metricPlayersOnline, playersOnline, now, worldIds,
                    idx, lastSeen, runStart, gone, renamed >>

\* ------------------------------------------------------- doGetWorlds
WorldPath == "/api/v1/worlds/%s"

\* mutant: the GaugeVec is reset before the write, as doGetPlayersOnline does
WorldSizeResetSet(w, world) == Put(Empty, world.name, world.sizeKb)

\* metricWorldSize.WithLabelValues(world.Name).Set(float64(world.SizeKb))
WorldSizeSet(w, world) == Put(w, world.name, world.sizeKb)

\* the list fetch returns; a non-empty list sends the first per-world request
doGetWorlds ==
    /\ Fetching("doGetWorlds")
    /\ \E r \in Outcomes("/api/v1/worlds") :
          /\ last' = Fetched("/api/v1/worlds", r)
          /\ IF r.kind # "ok"
             THEN /\ Returned(TRUE, written)
                  /\ UNCHANGED << worldIds, idx, good >>
             ELSE IF Len(r.val) = 0
                  THEN /\ good' = Snapshot(4, gauges, metricWorldSize, metricPlayersOnline)
                       /\ Returned(FALSE, written)
                       /\ UNCHANGED << worldIds, idx >>
                  ELSE /\ worldIds' = r.val
                       /\ idx' = 1
                       /\ pc' = "wfetch"
                       /\ Send(WorldPath)
                       /\ UNCHANGED << task, ran, failed, good, written >>
    /\ UNCHANGED << env, config, poll, scraped, timerInterval, ticker, gauges, metricWorldSize,
                    metricPlayersOnline, playersOnline, now,
                    lastSeen, runStart, gone, renamed >>

\* one pass of the range loop over worldIds: the per-world fetch returns
doGetWorldsRange ==
    /\ pc = "wfetch"
    /\ \E r \in Outcomes(WorldPath) :
          /\ last' = Fetched(WorldPath, r)
          /\ IF r.kind # "ok"
             THEN /\ worldIds' = << >>
                  /\ idx' = 0
                  /\ Returned(TRUE, written)
                  /\ UNCHANGED << metricWorldSize, good >>
             ELSE IF r.val = << >>
                  THEN /\ Panic
                       /\ UNCHANGED << metricWorldSize, good, worldIds, idx >>
                  ELSE /\ metricWorldSize' = WorldSizeSet(metricWorldSize, r.val[1])
                       /\ IF idx < Len(worldIds)
                          THEN /\ idx' = idx + 1
                               /\ pc' = "wfetch"
                               /\ Send(WorldPath)
                               /\ written' = written \cup { r.val[1].name }
                               /\ UNCHANGED << task, ran, failed, good, worldIds >>
                          ELSE /\ worldIds' = << >>
                               /\ idx' = 0
                               /\ good' = Snapshot(4, gauges, metricWorldSize', metricPlayersOnline)
                               /\ Returned(FALSE, written \cup { r.val[1].name })
    /\ UNCHANGED << env, config, poll, scraped, timerInterval, ticker, gauges,
                    metricPlayersOnline, playersOnline, now,
                    lastSeen, runStart, gone, renamed >>

\* ------------------------------------------------ doGetPlayersOnline
\* strconv.FormatInt(id, 10)
FormatInt(id) == ToString(id)

\* mutant: the GaugeVec is not reset
ResetNothing(vec) == vec

\* metricPlayersOnline.Reset()
Reset(vec) == Empty

\* mutant: the join time is stored on every poll
SessionJoinAlways(m, id, t) == Put(m, id, t)

\* playersOnline after the loop body looked up id at time t
SessionJoin(m, id, t) == IF id \in DOMAIN m THEN m ELSE Put(m, id, t)

\* existingIds after the loop body looked up id in m
StillOnline(ex, m, id) == IF id \in DOMAIN m THEN ex \ { id } ELSE ex

\* mutant: the duration is rounded to the nearest second
OnlineSecondsRounded(t, joined) == (2 * (t - joined) + TicksPerSecond) \div (2 * TicksPerSecond)

\* math.Floor(now.Sub(joined).Seconds())
OnlineSeconds(t, joined) == (t - joined) \div TicksPerSecond

\* mutant: the final loop is missing
EvictNone(m, ex) == m

\* the final loop: delete(playersOnline, k) for the keys left in existingIds
Evict(m, ex) == Without(m, ex)

\* the entries of a player list without nil entries, and their client IDs
EntriesOf(list) == { list[i][1] : i \in 1..Len(list) }

IdsOf(entries) == { e.clientID : e \in entries }

\* mutant: the sample is set only in the branch of a new player
RangeBodyNewOnly(st, p, t) ==
    [ m   |-> SessionJoin(st.m, p.clientID, t),
      ex  |-> StillOnline(st.ex, st.m, p.clientID),
      vec |-> IF p.clientID \in DOMAIN st.m THEN st.vec
              ELSE Put(st.vec, << p.name, FormatInt(p.clientID) >>, 0) ]

\* one pass of the range loop over players at capture time t, on
\* st = [m: playersOnline, ex: existingIds, vec: metricPlayersOnline]
RangeBody(st, p, t) ==
    LET joined == IF p.clientID \in DOMAIN st.m THEN st.m[p.clientID] ELSE t
    IN  [ m   |-> SessionJoin(st.m, p.clientID, t),
          ex  |-> StillOnline(st.ex, st.m, p.clientID),
          vec |-> Put(st.vec, << p.name, FormatInt(p.clientID) >>, OnlineSeconds(t, joined)) ]

\* the range loop over list; it stops with a panic at the first nil entry
RECURSIVE RangePlayers(_, _, _)
RangePlayers(st, list, t) ==
    IF list = << >> THEN [ st |-> st, panicked |-> FALSE ]
    ELSE IF Head(list) = << >> THEN [ st |-> st, panicked |-> TRUE ]
    ELSE RangePlayers(RangeBody(st, Head(list)[1], t), Tail(list), t)

\* mutant: only a transport error is taken for a failure
FetchFailedTransportOnly(r) == r.kind = "transport"

\* err != nil after makeRequest
FetchFailed(r) == r.kind # "ok"

\* the names entries lists client id under
NamesOf(entries, id) == { e.name : e \in { x \in entries : x.clientID = id } }

\* the client IDs both lists hold, under no common name
Renamed(before, after) ==
    { id \in IdsOf(before) \cap IdsOf(after) : NamesOf(before, id) \cap NamesOf(after, id) = {} }

\* the function returns nil after the loops: st is the state the range loop
\* left, list the decoded player list, t the captured time
PollReturn(list, st, t) ==
    /\ playersOnline' = Evict(st.m, st.ex)
    /\ metricPlayersOnline' = st.vec
    /\ lastSeen' = EntriesOf(list)
    /\ runStart' = [ id \in IdsOf(EntriesOf(list)) |->
                       IF id \in IdsOf(lastSeen) THEN runStart[id] ELSE t ]
    /\ gone' = gone \cup ((DOMAIN playersOnline) \ (DOMAIN playersOnline'))
    /\ renamed' = Renamed(lastSeen, EntriesOf(list))
    /\ good' = Snapshot(5, gauges, metricWorldSize, st.vec)
    /\ Returned(FALSE, written)

\* the fetch returns; on success time.Now() is captured, the GaugeVec is
\* reset, existingIds is built, the list is ranged over and the sessions
\* left in existingIds are deleted
doGetPlayersOnline ==
    /\ Fetching("doGetPlayersOnline")
    /\ \E r \in Outcomes("/api/v1/players") :
          /\ last' = Fetched("/api/v1/players", r)
          /\ IF FetchFailed(r)
             THEN /\ Returned(TRUE, written)
                  /\ UNCHANGED << now, metricPlayersOnline, playersOnline, good,
                                  lastSeen, runStart, gone, renamed >>
             ELSE \E d \in Inputs.steps :
                    LET t     == now + d
                        start == [ m   |-> playersOnline,
                                   ex  |-> DOMAIN playersOnline,
                                   vec |-> Reset(metricPlayersOnline) ]
                        done  == RangePlayers(start, r.val, t)
                    IN  /\ now' = t
                        /\ IF done.panicked
                           THEN /\ playersOnline' = done.st.m
                                /\ metricPlayersOnline' = done.st.vec
                                /\ Panic
                                /\ UNCHANGED << good, lastSeen, runStart, gone, renamed >>
                           ELSE PollReturn(r.val, done.st, t)
    /\ UNCHANGED << env, config, poll, scraped, timerInterval, ticker, gauges,
                    metricWorldSize, worldIds, idx >>

\* ---- doGetPlayersOnline, one step per pass of its loop: the points at
\* ---- which a scrape can read the GaugeVec in between
\* the locals of the call in progress
Locals == poll[1]

\* the entries the range loop has passed
Passed == SubSeq(Locals.list, 1, Len(Locals.list) - Len(Locals.rest))

\* the fetch returns; on success time.Now() is captured, the GaugeVec is
\* reset and existingIds is built
doGetPlayersOnlineReset ==
    /\ Fetching("doGetPlayersOnline")
    /\ \E r \in Outcomes("/api/v1/players") :
          /\ last' = Fetched("/api/v1/players", r)
          /\ IF FetchFailed(r)
             THEN /\ Returned(TRUE, written)
                  /\ UNCHANGED << now, metricPlayersOnline, poll >>
             ELSE \E d \in Inputs.steps :
                    /\ now' = now + d
                    /\ metricPlayersOnline' = Reset(metricPlayersOnline)
                    /\ poll' = << [ list |-> r.val, rest |-> r.val, ex |-> DOMAIN playersOnline ] >>
                    /\ pc' = "range"
                    /\ inflight' = "none"
                    /\ UNCHANGED << task, ran, failed, written >>
    /\ UNCHANGED << env, config, scraped, timerInterval, ticker, gauges,
                    metricWorldSize, playersOnline, worldIds, idx, good,
                    lastSeen, runStart, gone, renamed >>

\* one pass of the range loop over players
doGetPlayersOnlineRange ==
    /\ pc = "range"
    /\ Locals.rest # << >>
    /\ IF Head(Locals.rest) = << >>
       THEN /\ Panic
            /\ UNCHANGED << playersOnline, metricPlayersOnline, poll >>
       ELSE LET st == RangeBody([ m |-> playersOnline, ex |-> Locals.ex, vec |-> metricPlayersOnline ],
                                Head(Locals.rest)[1], now)
            IN  /\ playersOnline' = st.m
                /\ metricPlayersOnline' = st.vec
                /\ poll' = << [ list |-> Locals.list, rest |-> Tail(Locals.rest), ex |-> st.ex ] >>
                /\ UNCHANGED << pc, task, inflight, ran, failed, written >>
    /\ UNCHANGED << env, config, scraped, timerInterval, ticker, gauges,
                    metricWorldSize, now, worldIds, idx, good,
                    lastSeen, runStart, gone, renamed, last >>

\* past the range loop: the sessions left in existingIds are deleted and the
\* function returns nil
doGetPlayersOnlineEvict ==
    /\ pc = "range"
    /\ Locals.rest = << >>
    /\ PollReturn(Locals.list,
                  [ m |-> playersOnline, ex |-> Locals.ex, vec |-> metricPlayersOnline ], now)
    /\ poll' = << >>
    /\ UNCHANGED << env, config, scraped, timerInterval, ticker, gauges,
                    metricWorldSize, now, worldIds, idx, last >>

\* ------------------------------------------------------------ scrapes
\* main got past its checks and the process is alive: GET /metrics is served
Serving == pc \notin { "main", "fatal", "panic" }

\* GET /metrics: the handler gathers the registry's values as they are
Scrape ==
    /\ Serving
    /\ scraped' = << [ gauges  |-> gauges,
                       worlds  |-> metricWorldSize,
                       players |-> metricPlayersOnline ] >>
    /\ UNCHANGED << env, config, timerInterval, pc, task, ticker, inflight, gauges,
                    metricWorldSize, metricPlayersOnline, playersOnline, now,
                    worldIds, idx, failed, ran, written, good, lastSeen,
                    runStart, gone, poll, renamed, last >>

\* ---------------------------------------------------- specifications
Next ==
    \/ main
    \/ metricsLoop
    \/ NewTicker
    \/ Tick
    \/ StartCycle
    \/ doServerStatus
    \/ doGetGridCount
    \/ doGetBannedCount
    \/ doGetWorlds
    \/ doGetWorldsRange
    \/ doGetPlayersOnline

\* runs over the inputs EnvLoop
Spec == Init /\ [][Next]_vars

\* runs over the inputs EnvPlayers
SpecPlayers == InitPlayers /\ [][Next]_vars

\* runs over the inputs EnvWire
SpecWire == InitWire /\ [][Next]_vars

\* the cycle driver with doGetPlayersOnline step by step, and scrapes
NextScrape ==
    \/ main
    \/ metricsLoop
    \/ NewTicker
    \/ Tick
    \/ StartCycle
    \/ doServerStatus
    \/ doGetGridCount
    \/ doGetBannedCount
    \/ doGetWorlds
    \/ doGetWorldsRange
    \/ doGetPlayersOnlineReset
    \/ doGetPlayersOnlineRange
    \/ doGetPlayersOnlineEvict
    \/ Scrape

\* runs over the inputs EnvScrape
SpecScrape == InitScrape /\ [][NextScrape]_vars


\* ============================================================ claims
\* a function of metrics returns in this step (the other step a blocked
\* state can take is Tick)
ReturnStep == pc \in { "fetch", "wfetch" } /\ << pc, task, inflight, idx >>' # << pc, task, inflight, idx >>

\* ... and it returns a transport or decode error
ErrReturn == ReturnStep /\ inflight \in { "transport", "decode" }

\* no cycle is running: the driver is between two cycles
CycleOver == pc \in { "newticker", "wait" }

\* every gauge and the session map are as before the step
NothingWritten ==
    /\ gauges' = gauges
    /\ metricWorldSize' = metricWorldSize
    /\ metricPlayersOnline' = metricPlayersOnline
    /\ playersOnline' = playersOnline

ExpectedOrder ==
    << "doServerStatus", "doGetGridCount", "doGetBannedCount",
       "doGetWorlds", "doGetPlayersOnline" >>

\* the scalar gauges of g that function k does not own are the same in h
OthersKept(k, g, h) ==
    /\ k # 1 => /\ h.metricSimSpeed = g.metricSimSpeed
                /\ h.metricPlayerCount = g.metricPlayerCount
                /\ h.metricGameReady = g.metricGameReady
                /\ h.metricUptime = g.metricUptime
    /\ k # 2 => h.metricGridCount = g.metricGridCount
    /\ k # 3 => h.metricBannedCount = g.metricBannedCount

\* C1: a function that returns a transport or decode error writes nothing
\* and the loop calls the next function of metrics in the same cycle (after
\* the last one the cycle ends normally); a function that succeeds after
\* another has failed in the cycle writes its own gauges from the body it
\* received and leaves the others' gauges alone; and every cycle that ends
\* has called all five functions.
C1_ErrorStep ==
    ErrReturn =>
        /\ NothingWritten
        /\ IF task < Len(ExpectedOrder)
           THEN task' = task + 1 /\ pc' = "fetch" /\ ran' = Append(ran, ExpectedOrder[task + 1])
           ELSE CycleOver'

C1_OwnWrite ==
    (ReturnStep /\ failed /\ inflight = "ok" /\ pc = "fetch" /\ pc' # "panic") =>
        /\ OthersKept(task, gauges, gauges')
        /\ task # 4 => metricWorldSize' = metricWorldSize
        /\ task = 2 => \E v \in Inputs.ids : gauges'.metricGridCount = Len(v)
        /\ task = 3 => \E v \in Inputs.ids : gauges'.metricBannedCount = Len(v)
        /\ task = 1 => \E v \in Inputs.status :
                          /\ v # << >>
                          /\ gauges'.metricSimSpeed = v[1].simSpeed
                          /\ gauges'.metricPlayerCount = v[1].memberCount
                          /\ gauges'.metricGameReady = v[1].status

\* C1: errors are isolated (the three parts above)
C1_ErrorsAreIsolated ==
    /\ [](CycleOver => ran = ExpectedOrder)
    /\ [][C1_ErrorStep /\ C1_OwnWrite]_vars

\* C1 witness: the start-up cycle is over, doServerStatus failed in it (its
\* gauges were never written) and the later functions wrote theirs
C1_Witness ==
    /\ pc = "newticker"
    /\ failed
    /\ good[1] = TaskGauges(1, ZeroGauges, Empty, Empty)
    /\ gauges.metricSimSpeed = 0 /\ gauges.metricGameReady = 0
    /\ gauges.metricGridCount = 1
    /\ gauges.metricBannedCount = 1
    /\ "Alpha" \in DOMAIN metricWorldSize
    /\ lastSeen # {}

C6_FetchStep == pc \in { "fetch", "wfetch" } => pc' # "panic"

\* C6: no return of a fetch, and no use of what it decoded, ends the
\* process: from a state in which a collector function is running the next
\* state is never the panicked one.
C6_NoFetchAborts == [][C6_FetchStep]_vars


\* a step that changes metricWorldSize is the return of a successful
\* per-world fetch and changes the sample of one world, which it records
C7_WorldStep ==
    metricWorldSize' # metricWorldSize =>
        /\ pc = "wfetch" /\ inflight = "ok"
        /\ \E n \in written' :
              /\ DOMAIN metricWorldSize' = (DOMAIN metricWorldSize) \cup { n }
              /\ \A m \in (DOMAIN metricWorldSize) \ { n } : metricWorldSize'[m] = metricWorldSize[m]

C7_ErrorStep ==
    ErrReturn =>
        /\ NothingWritten
        /\ task # 4 => TaskGauges(task, gauges, metricWorldSize, metricPlayersOnline) = good[task]
        /\ (task = 4 /\ pc = "fetch") => written = {}

\* C7 as claimed: after a function returned an error its gauges are those of
\* the end of its last successful run.
C7_RetainLastGood ==
    [][ErrReturn => TaskGauges(task, gauges', metricWorldSize', metricPlayersOnline') = good[task]]_vars

\* C7 amended: the failing return writes nothing; the gauges of
\* doServerStatus, doGetGridCount, doGetBannedCount and doGetPlayersOnline are
\* then those of the end of their last successful run; doGetWorlds has
\* written nothing in the cycle when the list fetch fails, and otherwise
\* only the samples of the worlds it fetched before the failing one.
C7_FailureKeepsGauges == [][C7_ErrorStep /\ C7_WorldStep]_vars

\* C7 witness: doGetWorlds failed at a per-world fetch after it had written
\* a sample, so the gauge differs from its last successful run
C7_Witness ==
    /\ pc = "fetch" /\ task = 5 /\ failed
    /\ written # {}
    /\ good[4][1] # Empty
    /\ good[4][1] # metricWorldSize
    /\ gauges.metricGridCount = 1
    /\ good[2] = << 1 >>

C8_Step ==
    \A n \in DOMAIN metricWorldSize :
        /\ n \in DOMAIN metricWorldSize'
        /\ metricWorldSize'[n] # metricWorldSize[n] => (pc = "wfetch" /\ n \in written')

\* C8: no step removes a sample of metricWorldSize, and a sample changes
\* only when doGetWorlds writes that world's name.
C8_WorldSamplesStay == [][C8_Step]_vars

\* C8 witness: an earlier poll reported Alpha with 100, the poll of this
\* cycle succeeded and reported only Beta with 50, and both samples are held
C8_Witness ==
    /\ pc = "fetch" /\ task = 5 /\ ~failed
    /\ ticker # "none"
    /\ written = { "Beta" }
    /\ DOMAIN metricWorldSize = { "Alpha", "Beta" }
    /\ metricWorldSize["Alpha"] = 100
    /\ metricWorldSize["Beta"] = 50

\* main accepted the configuration
Accepted ==
    /\ config.host /\ config.port /\ config.pass
    /\ config.interval = "" \/ ParseDuration(config.interval).ok

\* C9 as claimed: under an accepted configuration the loop is started, and
\* once a cycle has run all five functions the driver waits for the next
\* tick (or is about to create the ticker): it has not stopped.
C9_DriverKeepsCycling ==
    Accepted =>
        /\ pc # "fatal"
        /\ (task = 0 /\ ran = ExpectedOrder) => CycleOver

C10_Order ==
    /\ Len(ran) <= Len(ExpectedOrder)
    /\ \A i \in 1..Len(ran) : ran[i] = ExpectedOrder[i]
    /\ pc \in { "fetch", "wfetch" } => (task >= 1 /\ task = Len(ran))
    /\ CycleOver => (task = 0 /\ ran = ExpectedOrder)

C10_CycleStart ==
    (ran' # ran /\ Len(ran') = 1) =>
        /\ pc \in { "loop", "wait" }
        /\ pc = "loop" => (ran = << >> /\ ticker = "none")
        /\ pc = "wait" => (ran = ExpectedOrder /\ task = 0 /\ ticker = "ticked")

\* C10: the functions called in a cycle are a prefix of the fixed order, the
\* one running is the last called, a cycle that ends has called all five
\* once, and a cycle starts only from the idle driver after the previous
\* cycle ended, also when a tick arrived while that cycle was running.
C10_OrderedCycles == []C10_Order /\ [][C10_CycleStart]_vars

\* C10 witness: a tick arrived while a cycle is still running its last
\* function, after an earlier function of the cycle failed
C10_Witness ==
    /\ pc = "fetch" /\ task = 5
    /\ ticker = "ticked"
    /\ failed
    /\ ran = ExpectedOrder


\* the process did not die in the range loop of doGetPlayersOnline, which
\* leaves a poll half applied
PollSettled == ~(task = 5 /\ pc = "panic")

\* the decimal numeral of a client ID of the model
Decimal(id) == CASE id = 1 -> "1" [] id = 2 -> "2"

\* C2: after a successful poll every listed client ID has a session record
\* whose join time is the capture time of the first poll of the ID's current
\* unbroken run of successful polls (runStart, kept by the model as history).
C2_JoinTimeIsRunStart ==
    PollSettled =>
        \A e \in lastSeen :
            /\ e.clientID \in DOMAIN playersOnline
            /\ playersOnline[e.clientID] = runStart[e.clientID]

\* C2 witness: client 1 was evicted earlier and is listed again, with the
\* capture time of the poll in which it reappeared, while client 2 has
\* stayed listed since an earlier poll
C2_Witness ==
    /\ PollSettled /\ CycleOver
    /\ 1 \in gone /\ 2 \notin gone
    /\ IdsOf(lastSeen) = { 1, 2 }
    /\ playersOnline[1] = now
    /\ playersOnline[2] < now - 1

\* C3: after a successful poll the session map holds exactly the client IDs
\* of that poll's list.
C3_MapIsList == PollSettled => DOMAIN playersOnline = IdsOf(lastSeen)

\* C3 witness: the session of client 1 was evicted and the last poll listed
\* client 2 twice, under two names
C3_Witness ==
    /\ PollSettled /\ CycleOver
    /\ 1 \in gone
    /\ Cardinality(lastSeen) = 2 /\ IdsOf(lastSeen) = { 2 }
    /\ DOMAIN playersOnline = { 2 }

\* C4: after a successful poll the players gauge has exactly one sample per
\* (name, client ID) pair of that poll's list.
C4_GaugeIsList ==
    PollSettled =>
        DOMAIN metricPlayersOnline = { << e.name, Decimal(e.clientID) >> : e \in lastSeen }

\* C4 witness: client 1 had a sample and left, and the last poll listed only
\* client 2, under two names
C4_Witness ==
    /\ PollSettled /\ CycleOver
    /\ 1 \in gone
    /\ DOMAIN metricPlayersOnline = { << "A", "2" >>, << "B", "2" >> }

\* v is the floor of d ticks in whole seconds
IsFloorSeconds(v, d) == v * TicksPerSecond <= d /\ d < (v + 1) * TicksPerSecond

C5_Samples ==
    PollSettled =>
          \A e \in lastSeen :
             LET v == metricPlayersOnline[<< e.name, Decimal(e.clientID) >>]
                 d == now - playersOnline[e.clientID]
             IN  /\ IsFloorSeconds(v, d)
                 /\ d = 0 => v = 0
                 /\ d = TenSeconds => (v >= 10 /\ v < 11)

C5_NoDecrease ==
    PollSettled' =>
        \A e \in lastSeen : \A f \in lastSeen' :
            e.clientID = f.clientID =>
                metricPlayersOnline'[<< f.name, Decimal(f.clientID) >>]
                    >= metricPlayersOnline[<< e.name, Decimal(e.clientID) >>]

\* C5: after a successful poll captured at `now` every listed player's
\* sample is floor(now - join time) in seconds: 0 in the poll that first sees
\* the player, 10 when 10 seconds lie between; and no poll leaves a sample
\* below the one the previous successful poll left for the same client ID.
C5_FloorSeconds == []C5_Samples /\ [][C5_NoDecrease]_vars

\* C5 witness: client 1 is listed in a poll captured ten seconds after the
\* poll that first saw it, and client 2 is first seen in this poll
C5_Witness ==
    /\ PollSettled /\ CycleOver
    /\ lastSeen = { [ clientID |-> 1, name |-> "A", promoteLevel |-> 0 ],
                    [ clientID |-> 2, name |-> "B", promoteLevel |-> 0 ] }
    /\ now - playersOnline[1] = TenSeconds
    /\ metricPlayersOnline[<< "A", "1" >>] = 10
    /\ playersOnline[2] = now
    /\ metricPlayersOnline[<< "B", "2" >>] = 0

\* the last fetch that returned was GET /api/v1/server/status and it
\* received an object with an uptime member
StatusWithUptime(f) ==
    /\ f.path = "/api/v1/server/status"
    /\ f.json.t = "object"
    /\ "uptime" \in DOMAIN f.json.v

\* no other member of the object keeps the decoder from succeeding
OtherMembersNumbers(o) ==
    \A f \in { "simSpeed", "memberCount", "status" } : f \in DOMAIN o /\ o[f].t = "number"

\* u is a string of three numerals separated by colons
ThreeNumericParts(u) ==
    /\ u.t = "string"
    /\ Len(u.v) = 5
    /\ u.v[1].c = "num" /\ u.v[2].c = ":" /\ u.v[3].c = "num"
    /\ u.v[4].c = ":" /\ u.v[5].c = "num"

\* u is H:MM:SS
IsHMS(u) == ThreeNumericParts(u) /\ u.v[3].n <= 99 /\ u.v[5].n <= 99

\* the gauge value g is hh * 3600 + mm * 60 + ss seconds
IsTotal(g, hh, mm, ss) == g.s < 3600 /\ (g.h - hh) * 3600 + g.s = mm * 60 + ss

\* hh * 3600 + mm * 60 + ss seconds are at most 9223372036 (2^63 - 1 ns)
WithinInt64(hh, mm, ss) == hh < 2562047 \/ (hh = 2562047 /\ mm * 60 + ss <= 2836)

C12_Step ==
    (ReturnStep /\ task = 1 /\ StatusWithUptime(last') /\ ~ThreeNumericParts(last'.json.v.uptime)) =>
        /\ last'.kind = "decode"
        /\ gauges' = gauges

C12_OtherUptimesFail == [][C12_Step]_vars

\* C13: with TORCH_HOST, TORCH_PORT or TORCH_PASS missing the only step the
\* process takes is the fatal exit of main: no request is ever sent, no
\* function of metrics is called, every gauge stays as constructed and no
\* scrape is ever answered.
C13_Refused ==
    (~config.host \/ ~config.port \/ ~config.pass) =>
        /\ pc \in { "main", "fatal" }
        /\ task = 0 /\ inflight = "none" /\ ran = << >> /\ last = NoFetch
        /\ gauges = ZeroGauges
        /\ metricWorldSize = Empty /\ metricPlayersOnline = Empty
        /\ playersOnline = Empty
        /\ scraped = << >>

C13_FatalStep == (pc = "main" /\ (~config.host \/ ~config.port \/ ~config.pass)) => pc' = "fatal"

C13_MissingConfigIsFatal == []C13_Refused /\ [][C13_FatalStep]_vars

\* C13 witness: only the token is missing and the process has exited
C13_Witness == pc = "fatal" /\ config.host /\ config.port /\ ~config.pass

\* the labels of the sample of a list entry
KeyOf(e) == << e.name, Decimal(e.clientID) >>

\* the successful poll that returns in this step
PollSucceeds == ReturnStep /\ task = 5 /\ inflight = "ok" /\ pc' \in { "newticker", "wait" }

\* C14: when a successful poll lists a client ID under other names than the
\* successful poll before it did, it leaves no sample under an old name, a
\* sample under each new name whose value is the floor of the seconds since
\* the join time recorded before, and the session record as it was.
C14_Step ==
    PollSucceeds =>
        \A id \in IdsOf(lastSeen) \cap IdsOf(lastSeen') :
            (\A e \in lastSeen : \A f \in lastSeen' :
                (e.clientID = id /\ f.clientID = id) => e.name # f.name) =>
                /\ \A e \in lastSeen : e.clientID = id => KeyOf(e) \notin DOMAIN metricPlayersOnline'
                /\ \A f \in lastSeen' : f.clientID = id =>
                      /\ KeyOf(f) \in DOMAIN metricPlayersOnline'
                      /\ IsFloorSeconds(metricPlayersOnline'[KeyOf(f)], now' - playersOnline[id])
                /\ playersOnline'[id] = playersOnline[id]

C14_RenameKeepsSession == [][C14_Step]_vars

\* C14 witness: client 1 was listed as A, is listed as B by the poll captured
\* ten seconds later, and its only sample is the one under B, at 10
C14_Witness ==
    /\ CycleOver /\ PollSettled
    /\ renamed = { 1 }
    /\ lastSeen = { [ clientID |-> 1, name |-> "B", promoteLevel |-> 0 ] }
    /\ now - playersOnline[1] = TenSeconds
    /\ DOMAIN metricPlayersOnline = { << "B", "1" >> }
    /\ metricPlayersOnline[<< "B", "1" >>] = 10

\* the body j has the shape of what GET path is decoded into
WellShaped(path, j) ==
    CASE path = "/api/v1/server/status" ->
           /\ j.t = "object"
           /\ DOMAIN j.v = { "simSpeed", "memberCount", "uptime", "status" }
           /\ j.v.simSpeed.t = "number" /\ j.v.memberCount.t = "number"
           /\ j.v.uptime.t = "string" /\ j.v.status.t = "number"
      [] path = "/api/v1/players" ->
           /\ j.t = "array"
           /\ \A i \in 1..Len(j.v) :
                 /\ j.v[i].t = "object"
                 /\ DOMAIN j.v[i].v = { "clientID", "name", "promoteLevel" }
      [] OTHER ->
           /\ j.t = "array"
           /\ \A i \in 1..Len(j.v) : j.v[i].t = "number"

\* C15: a fetch whose connection fails, or whose body is not JSON or is JSON
\* of another shape than the requested type, returns an error and the
\* function that issued it writes nothing; a fetch returns success only on
\* a body of the requested shape.
C15_Step ==
    ReturnStep =>
        /\ inflight = "transport" => (last' = NoFetch /\ NothingWritten)
        /\ (last' # NoFetch /\ ~WellShaped(last'.path, last'.json)) =>
              (last'.kind = "decode" /\ NothingWritten)
        /\ (last' # NoFetch /\ last'.kind = "ok") => WellShaped(last'.path, last'.json)

C15_OnlyShapedBodiesSucceed == [][C15_Step]_vars

\* C16: a poll whose fetch fails leaves the session map, the players gauge
\* and the record of the last successful poll as they were, so the join time
\* of a listed client stays that of the first poll of its unbroken run of
\* successful polls, failed polls in between or not.
C16_Step ==
    (ErrReturn /\ task = 5) =>
        /\ playersOnline' = playersOnline
        /\ metricPlayersOnline' = metricPlayersOnline
        /\ lastSeen' = lastSeen /\ runStart' = runStart

C16_JoinTimes ==
    PollSettled =>
        \A id \in IdsOf(lastSeen) : id \in DOMAIN playersOnline /\ playersOnline[id] = runStart[id]

C16_FailedPollKeepsSessions == []C16_JoinTimes /\ [][C16_Step]_vars

\* C16 witness: client 1 joined in an earlier poll, and the last poll, which
\* received a body that is not JSON, left its record in place
C16_Witness ==
    /\ CycleOver
    /\ last = [ path |-> "/api/v1/players", kind |-> "decode", json |-> Malformed ]
    /\ DOMAIN playersOnline = { 1 }
    /\ playersOnline[1] < now
    /\ IdsOf(lastSeen) = { 1 }

\* C17: while the process serves, every sample of the players gauge was
\* written by the last completed successful poll, or, while a poll is
\* between its Reset and its return, by that poll; and a scrape is answered
\* with the gauge as it is.
C17_Fresh ==
    Serving =>
        \A k \in DOMAIN metricPlayersOnline :
            IF poll = << >>
            THEN k \in { KeyOf(e) : e \in lastSeen }
            ELSE k \in { KeyOf(e) : e \in EntriesOf(Passed) }

C17_ScrapeStep ==
    scraped' # scraped => (Serving /\ scraped'[1].players = metricPlayersOnline)

HasSample(id) == \E k \in DOMAIN metricPlayersOnline : k[2] = Decimal(id)

\* the client IDs of the non-nil entries of list
ListedIds(list) == { list[i][1].clientID : i \in { j \in 1..Len(list) : list[j] # << >> } }

\* C18 as claimed: a client that the last completed successful poll listed,
\* and that the poll in progress lists too, has a sample whenever the
\* process serves.
C18_AlwaysVisible ==
    Serving =>
        \A id \in IdsOf(lastSeen) :
            (poll = << >> \/ id \in ListedIds(Locals.list)) => HasSample(id)

\* C18 amended: ... it has a sample whenever the process serves and no poll
\* is between its Reset and the pass of its loop that writes the client's
\* sample.
C18_VisibleOutsideRebuild ==
    Serving =>
        \A id \in IdsOf(lastSeen) :
            (poll = << >> \/ id \in ListedIds(Passed)) => HasSample(id)

\* C18 witness: both clients were listed by the last completed poll and are
\* listed by the poll in progress, which has written the sample of client 1
\* and not yet that of client 2; a scrape was answered with this gauge
C18_Witness ==
    /\ pc = "range"
    /\ IdsOf(lastSeen) = { 1, 2 }
    /\ ListedIds(Locals.list) = { 1, 2 }
    /\ ListedIds(Passed) = { 1 }
    /\ HasSample(1) /\ ~HasSample(2)
    /\ scraped # << >>
    /\ scraped[1].players = metricPlayersOnline

\* a fetch is blocked
Blocked == pc \in { "fetch", "wfetch" }

\* C19: while a fetch is blocked the only steps are ticks and scrapes: no
\* function is called, no cycle starts and no gauge changes, and a scrape
\* is answered with the gauges as they are; the return of the fetch does not
\* end the process and takes the cycle on in order: to the next fetch of
\* the same function, to the next function, or to the end of the cycle.
C19_Step ==
    Blocked =>
        /\ ~ReturnStep =>
              /\ pc' = pc /\ task' = task /\ ran' = ran
              /\ NothingWritten
        /\ scraped' # scraped =>
              scraped' = << [ gauges |-> gauges, worlds |-> metricWorldSize,
                              players |-> metricPlayersOnline ] >>
        /\ ReturnStep =>
              /\ pc' # "panic"
              /\ \/ pc' \in { "wfetch", "range" } /\ task' = task
                 \/ pc' = "fetch" /\ task' = task + 1
                 \/ CycleOver' /\ task = Len(ExpectedOrder)

C19_HungFetchOnlyDelays == [][C19_Step]_vars

=============================================================================
